---------------------------- MODULE Spec2Model ----------------------------
(***************************************************************************)
(* Albedo intent dispatch: validation of a requested intent against the    *)
(* intent interface, selection of one of three transports (extension,      *)
(* iframe, dialog) using the implicit session storage, the message         *)
(* exchange, and the handling of an implicit session grant.                *)
(*                                                                         *)
(* JavaScript strings are sequences of one-character strings, so that the  *)
(* public key pattern is evaluated character by character.  Intent names   *)
(* and parameter names are TLA+ strings.  An absent property reads as      *)
(* undefined, which is falsy like the empty string.                        *)
(***************************************************************************)
EXTENDS Naturals, Sequences, FiniteSets, TLC

\* ------------------------------------------------------------- bounds ----
\* Number of dispatch calls that may be in flight at once.
MaxCalls == 2
\* Last instant of the clock.
MaxTime == 1

\* --------------------------------------------------- program constants ----
\* {55} of /^G[0-9A-Z]{55}$/.
KeyBodyLen == 55

UpperAlnum ==
    {"A", "B", "C", "D", "E", "F", "G", "H", "I", "J", "K", "L", "M",
     "N", "O", "P", "Q", "R", "S", "T", "U", "V", "W", "X", "Y", "Z",
     "0", "1", "2", "3", "4", "5", "6", "7", "8", "9"}

\* ------------------------------------------------------------- values ----
Rep(ch, n) == [i \in 1..n |-> ch]

\* Well-shaped account public keys.
PK1 == <<"G">> \o Rep("A", KeyBodyLen)
PK2 == <<"G">> \o Rep("7", KeyBodyLen)
\* Ill-shaped ones: one character short, one long, a lowercase character,
\* a wrong first character, a well-shaped key followed by a line break.
PKShort == <<"G">> \o Rep("A", KeyBodyLen - 1)
PKLong == <<"G">> \o Rep("A", KeyBodyLen + 1)
PKLower == <<"G">> \o Rep("A", KeyBodyLen - 1) \o <<"a">>
PKPrefix == <<"S">> \o Rep("A", KeyBodyLen)
PKNewline == PK1 \o <<"\n">>
BadPubkeys == {PKShort, PKLong, PKLower, PKPrefix, PKNewline}

\* The empty string, and two non-empty strings.
Empty == <<>>
V == <<"v">>
X == <<"x">>

\* Session tokens issued by the trusted application.
T1 == <<"t", "1">>
T2 == <<"t", "2">>

Pubkeys == {PK1, PK2}

\* ---------------------------------------------------- intent interface ----
Param(name, required) == [name |-> name, required |-> required]

\* The descriptors of the intents, each with its parameters in declaration
\* order.
intentInterface ==
    [implicit_flow |-> [params |-> <<Param("intents", TRUE)>>],
     tx |-> [params |-> <<Param("xdr", TRUE), Param("pubkey", FALSE)>>],
     trust |-> [params |-> <<Param("asset_code", TRUE),
                             Param("asset_issuer", TRUE),
                             Param("pubkey", FALSE)>>],
     manage_account |-> [params |-> <<Param("pubkey", TRUE)>>],
     public_key |-> [params |-> <<Param("token", FALSE)>>],
     sign_message |-> [params |-> <<Param("message", TRUE),
                                    Param("pubkey", FALSE)>>],
     pay |-> [params |-> <<Param("destination", TRUE),
                           Param("amount", TRUE),
                           Param("pubkey", FALSE)>>],
     exchange |-> [params |-> <<Param("amount", TRUE),
                                Param("max_price", TRUE),
                                Param("pubkey", FALSE)>>]]

\* undefined, what reading a name the registry does not have gives.
NoDescriptor == [params |-> <<Param("", FALSE)>>]

\* The names an object inherits from Object.prototype, and what reading one
\* of them from the registry gives: a member of Object.prototype, which is
\* truthy and has no params to loop over.
ObjectPrototype ==
    {"constructor", "hasOwnProperty", "isPrototypeOf", "propertyIsEnumerable",
     "toLocaleString", "toString", "valueOf", "__proto__", "__defineGetter__",
     "__defineSetter__", "__lookupGetter__", "__lookupSetter__"}
Inherited == [params |-> <<>>]

\* intentInterface[intent]: a property read, which goes through the
\* prototype chain of the registry object.
Lookup(intent) ==
    IF intent \in DOMAIN intentInterface THEN intentInterface[intent]
    ELSE IF intent \in ObjectPrototype THEN Inherited
    ELSE NoDescriptor

Declared(intent) ==
    {Lookup(intent).params[i].name : i \in 1..Len(Lookup(intent).params)}

\* ------------------------------------------------------------- errors ----
NoError == [kind |-> "none", param |-> "", intent |-> ""]
Err(kind, param, intent) == [kind |-> kind, param |-> param, intent |-> intent]

ValidationKinds ==
    {"MissingIntent", "UnknownIntent", "InvalidParameters", "InvalidPubkey",
     "MissingRequiredParameter"}
TransportErrors == {"UserRejected", "Timeout", "ChannelClosed"}

\* --------------------------------------------------------- parameters ----
\* The params argument: its typeof, its intent property ("" when absent or
\* empty) and its other own properties.
NoProps == [k \in {} |-> Empty]
Params(type, intent, props) == [type |-> type, intent |-> intent, props |-> props]
NoParams == Params("none", "", NoProps)

\* A truthy params[key].
Truthy(params, key) ==
    key \in DOMAIN params.props /\ Len(params.props[key]) > 0

\* Faulty variant of TestPubkey: the pattern without its closing anchor,
\* /^G[0-9A-Z]{55}/.
TestPubkeyNoAnchor(pubkey) ==
    /\ Len(pubkey) >= KeyBodyLen + 1
    /\ pubkey[1] = "G"
    /\ \A i \in 2..(KeyBodyLen + 1) : pubkey[i] \in UpperAlnum

\* /^G[0-9A-Z]{55}$/.test(pubkey)
TestPubkey(pubkey) ==
    /\ Len(pubkey) = KeyBodyLen + 1
    /\ pubkey[1] = "G"
    /\ \A i \in 2..(KeyBodyLen + 1) : pubkey[i] \in UpperAlnum

\* ------------------------------------------------ prepareRequestParams ----
NoEnvelope == [intent |-> "", props |-> NoProps]
Validation(status, error, requestParams) ==
    [status |-> status, error |-> error, requestParams |-> requestParams]

\* Faulty variant of CopyParams: `if (key in params)` for `if (value)`.
RECURSIVE CopyPresent(_, _, _, _)
CopyPresent(intentDescriptor, params, i, requestParams) ==
    IF i > Len(intentDescriptor.params)
    THEN Validation("resolved", NoError, requestParams)
    ELSE LET key == intentDescriptor.params[i].name
             props == intentDescriptor.params[i]
         IN  IF key \in DOMAIN params.props
             THEN CopyPresent(intentDescriptor, params, i + 1,
                      [requestParams EXCEPT
                          !.props = (key :> params.props[key]) @@ @])
             ELSE IF props.required
             THEN Validation("rejected",
                      Err("MissingRequiredParameter", key, params.intent),
                      NoEnvelope)
             ELSE CopyPresent(intentDescriptor, params, i + 1, requestParams)

\* The loop over the descriptor's parameters, from the i-th on.
RECURSIVE CopyParams(_, _, _, _)
CopyParams(intentDescriptor, params, i, requestParams) ==
    IF i > Len(intentDescriptor.params)
    THEN Validation("resolved", NoError, requestParams)
    ELSE LET key == intentDescriptor.params[i].name
             props == intentDescriptor.params[i]
         IN  IF Truthy(params, key)
             THEN CopyParams(intentDescriptor, params, i + 1,
                      [requestParams EXCEPT
                          !.props = (key :> params.props[key]) @@ @])
             ELSE IF props.required
             THEN Validation("rejected",
                      Err("MissingRequiredParameter", key, params.intent),
                      NoEnvelope)
             ELSE CopyParams(intentDescriptor, params, i + 1, requestParams)

\* Faulty variant of prepareRequestParams: requestParams starts as a copy of
\* params, `{...params}` for `{intent}`.
prepareRequestParamsSpread(intentDescriptor, params) ==
    IF params.type \notin {"object", "null"}
    THEN Validation("rejected", Err("InvalidParameters", "", ""), NoEnvelope)
    ELSE IF params.type = "null"
    THEN Validation("thrown", Err("TypeError", "", ""), NoEnvelope)
    ELSE IF Truthy(params, "pubkey") /\ ~TestPubkey(params.props["pubkey"])
    THEN Validation("rejected", Err("InvalidPubkey", "", ""), NoEnvelope)
    ELSE CopyParams(intentDescriptor, params, 1,
                    [intent |-> params.intent, props |-> params.props])

\* typeof null is 'object': null passes the first test, and reading its
\* intent and pubkey throws.
prepareRequestParams(intentDescriptor, params) ==
    IF params.type \notin {"object", "null"}
    THEN Validation("rejected", Err("InvalidParameters", "", ""), NoEnvelope)
    ELSE IF params.type = "null"
    THEN Validation("thrown", Err("TypeError", "", ""), NoEnvelope)
    ELSE IF Truthy(params, "pubkey") /\ ~TestPubkey(params.props["pubkey"])
    THEN Validation("rejected", Err("InvalidPubkey", "", ""), NoEnvelope)
    ELSE CopyParams(intentDescriptor, params, 1,
                    [intent |-> params.intent, props |-> NoProps])

\* -------------------------------------------- requestIntentConfirmation ----
\* Validation as far as the point where sendRequest is scheduled.  Reading
\* the intent of undefined or null throws before anything is tested.
requestIntentConfirmation(params) ==
    IF params.type \in {"undefined", "null"}
    THEN Validation("thrown", Err("TypeError", "", ""), NoEnvelope)
    ELSE IF params.intent = ""
    THEN Validation("rejected", Err("MissingIntent", "", ""), NoEnvelope)
    ELSE IF Lookup(params.intent) = NoDescriptor
    THEN Validation("rejected", Err("UnknownIntent", "", params.intent),
                    NoEnvelope)
    ELSE prepareRequestParams(Lookup(params.intent), params)

\* ------------------------------------------- implicit session storage ----
\* A session as getImplicitSession returns it; NoSession when absent.
NoSession == [pubkey |-> Empty, key |-> Empty, valid_until |-> 0, grants |-> {}]
\* A stored entry, one per pubkey; NoEntry when nothing is stored.
NoEntry == [key |-> Empty, valid_until |-> 0, grants |-> {}]

\* A result payload of the confirmation surface.
Result(intent, granted, pubkey, session, valid_until, grants) ==
    [intent |-> intent, granted |-> granted, pubkey |-> pubkey,
     session |-> session, valid_until |-> valid_until, grants |-> grants]
NoResult == Result("", FALSE, Empty, Empty, 0, {})

Expired(entry, time) == time > entry.valid_until

getImplicitSession(sessions, time, intent, pubkey) ==
    IF pubkey \notin DOMAIN sessions THEN NoSession
    ELSE LET entry == sessions[pubkey]
         IN  IF entry = NoEntry \/ Expired(entry, time)
                \/ intent \notin entry.grants
             THEN NoSession
             ELSE [pubkey |-> pubkey, key |-> entry.key,
                   valid_until |-> entry.valid_until, grants |-> entry.grants]

addSession(sessions, result) ==
    IF result.pubkey \notin DOMAIN sessions THEN sessions
    ELSE [sessions EXCEPT ![result.pubkey] =
             [key |-> result.session, valid_until |-> result.valid_until,
              grants |-> result.grants]]

forgetSession(sessions, pubkey) ==
    IF pubkey \notin DOMAIN sessions THEN sessions
    ELSE [sessions EXCEPT ![pubkey] = NoEntry]

\* -------------------------------------------------------- sendRequest ----
\* if (window.albedo && window.albedo.extensionEnabled)
\*     transport = createExtensionTransport()
ExtensionFirst(enabled) ==
    IF enabled THEN [transport |-> "extension", created |-> {"extension"}]
    ELSE [transport |-> "none", created |-> {}]

\* if (params.pubkey)
HasPubkey(requestParams) ==
    "pubkey" \in DOMAIN requestParams.props
    /\ Len(requestParams.props["pubkey"]) > 0

\* Faulty variant of AttachSession: the assignment left out.
AttachNothing(requestParams, session) == requestParams

\* params.session = session.key
AttachSession(requestParams, session) ==
    [requestParams EXCEPT !.props = ("session" :> session.key) @@ @]

\* Faulty variant of OrIframe: `transport = createIframeTransport(frontendUrl)`.
AlwaysIframe(t) ==
    [transport |-> "iframe", created |-> t.created \cup {"iframe"}]

\* transport = transport || createIframeTransport(frontendUrl)
OrIframe(t) ==
    IF t.transport # "none" THEN t
    ELSE [transport |-> "iframe", created |-> t.created \cup {"iframe"}]

\* Faulty variant of OrDialog: the fallback creates an iframe transport.
OrIframeAgain(t) ==
    IF t.transport # "none" THEN t
    ELSE [transport |-> "iframe", created |-> t.created \cup {"iframe"}]

\* if (!transport) transport = createDialogTransport(frontendUrl)
OrDialog(t) ==
    IF t.transport # "none" THEN t
    ELSE [transport |-> "dialog", created |-> t.created \cup {"dialog"}]

\* Faulty variant of LookupSession: `else if (params.pubkey)`, the storage
\* consulted only when no extension transport was created.
LookupSessionUnlessExtension(requestParams, enabled, sessions, time) ==
    IF HasPubkey(requestParams) /\ ~enabled
    THEN getImplicitSession(sessions, time, requestParams.intent,
                            requestParams.props["pubkey"])
    ELSE NoSession

\* if (params.pubkey) session = getImplicitSession(params.intent, params.pubkey)
LookupSession(requestParams, enabled, sessions, time) ==
    IF HasPubkey(requestParams)
    THEN getImplicitSession(sessions, time, requestParams.intent,
                            requestParams.props["pubkey"])
    ELSE NoSession

\* Faulty variant of sendRequest: the iframe transport is chosen outside the
\* `if (session)` block, for every envelope that has a pubkey.
sendRequestIframeForPubkey(requestParams, enabled, sessions, time) ==
    LET t0 == ExtensionFirst(enabled)
        session == LookupSession(requestParams, enabled, sessions, time)
        found == session # NoSession
        t1 == IF HasPubkey(requestParams) THEN OrIframe(t0) ELSE t0
        t2 == OrDialog(t1)
    IN  [envelope |-> IF found THEN AttachSession(requestParams, session)
                      ELSE requestParams,
         transport |-> t2.transport,
         created |-> t2.created,
         read |-> HasPubkey(requestParams),
         session |-> session]

\* sendRequest up to transport.postMessage(params): the envelope posted, the
\* transport it is posted to, the transports created, whether the storage
\* was read and what it returned.
sendRequest(requestParams, enabled, sessions, time) ==
    LET t0 == ExtensionFirst(enabled)
        session == LookupSession(requestParams, enabled, sessions, time)
        found == session # NoSession
        t1 == IF found THEN OrIframe(t0) ELSE t0
        t2 == OrDialog(t1)
    IN  [envelope |-> IF found THEN AttachSession(requestParams, session)
                      ELSE requestParams,
         transport |-> t2.transport,
         created |-> t2.created,
         read |-> HasPubkey(requestParams),
         session |-> session]

\* Faulty variant of onResult: the grant is not saved.
onResultIgnored(sessions, result) == sessions

\* Faulty variant of onResult: a grant is saved only for a pubkey that has
\* no session yet.
onResultKeepFirst(sessions, result) ==
    IF /\ result.intent = "implicit_flow" /\ result.granted
       /\ result.pubkey \in DOMAIN sessions
       /\ sessions[result.pubkey] = NoEntry
    THEN addSession(sessions, result)
    ELSE sessions

\* Faulty variant of onResult: `result.granted` is not tested.
onResultAnyImplicit(sessions, result) ==
    IF result.intent = "implicit_flow"
    THEN addSession(sessions, result)
    ELSE sessions

\* The handler of the transport's response: the storage it leaves.
onResult(sessions, result) ==
    IF result.intent = "implicit_flow" /\ result.granted
    THEN addSession(sessions, result)
    ELSE sessions

\* The handler's return value.
returned(result) == result

\* Faulty variant of propagated: a rejection handler that throws a new error.
wrapped(error) == Err("Error", "", error.kind)

\* A failure of the exchange has no handler: it is the dispatch's failure.
propagated(error) == error

\* -------------------------------------------------------------- state ----
VARIABLES
    calls,              \* each dispatch call: where it stands and what it holds
    store,              \* the implicit session storage: pubkey -> entry
    now,                \* the clock
    extensionEnabled,   \* window.albedo && window.albedo.extensionEnabled
    latest,             \* history: per pubkey, the session of the last grant
                        \* resolved and not forgotten since
    objects             \* the params objects the callers hold and pass

vars == <<calls, store, now, extensionEnabled, latest, objects>>

CallIds == 1..MaxCalls

\* How a promise settled: with a result, or with an error.
NoOutcome == [kind |-> "none", result |-> NoResult, error |-> NoError]
Fulfilled(result) == [kind |-> "result", result |-> result, error |-> NoError]
Failed(error) == [kind |-> "error", result |-> NoResult, error |-> error]

\* A call that has not started.  A started call holds the params it was
\* given, its envelope (requestParams, then the message posted), the
\* transport it posted to, every transport it created, the extension flag it
\* saw, whether it read the storage and the session it got, how its
\* exchange settled (raised) and how the dispatch settled (outcome).  The
\* envelope is discarded when the call settles.  replaced: the session this
\* call stored was since forgotten or overwritten.  A call made through
\* AlbedoIntent holds the method called (entry), the intent that method
\* stands for (asked), the caller's object it was given (arg) and the
\* argument it evaluated for requestIntentConfirmation (passed).  shared:
\* the caller's object the envelope is one and the same object with, none
\* when the envelope is an object of its own.
NoObject == "none"

Idle ==
    [pc |-> "idle", params |-> NoParams, envelope |-> NoEnvelope,
     transport |-> "none", created |-> {}, ext |-> FALSE, read |-> FALSE,
     session |-> NoSession, raised |-> NoOutcome, outcome |-> NoOutcome,
     replaced |-> FALSE, entry |-> "", asked |-> "", arg |-> NoObject,
     passed |-> NoParams, shared |-> NoObject]

\* ------------------------------------------------------------- inputs ----
Absent == <<"?">>

\* The objects with one of the given choices of value per key, Absent
\* leaving the key out.
Objects(choices) ==
    LET values == UNION {choices[k] : k \in DOMAIN choices}
        picks == {f \in [DOMAIN choices -> values] :
                     \A k \in DOMAIN choices : f[k] \in choices[k]}
    IN  {[k \in {j \in DOMAIN f : f[j] # Absent} |-> f[k]] : f \in picks}

\* The intent names tried: none, one the registry does not have, one it
\* inherits, the registered.
IntentNames == {"", "bogus", "constructor"} \cup DOMAIN intentInterface

\* The properties tried with an intent: each declared parameter absent,
\* empty or set; a pubkey absent, empty, well-shaped or ill-shaped; two
\* properties no descriptor declares.
PropsFor(intent) ==
    Objects([k \in (Declared(intent) \ {""}) \cup {"pubkey", "session", "extra"} |->
        CASE k = "pubkey" -> {Absent, Empty, PK1} \cup BadPubkeys
          [] k = "session" -> {Absent, X}
          [] k = "extra" -> {Absent, V}
          [] OTHER -> {Absent, Empty, V}])

\* Every params value tried by the validation runs.
AllParams ==
    UNION {{Params(type, intent, props) :
               type \in {"object", "function"}, props \in PropsFor(intent)} :
           intent \in IntentNames}
    \cup {Params(type, "", NoProps) :
             type \in {"string", "number", "undefined", "null"}}

\* The requests of the protocol runs: an intent that takes no pubkey, one
\* that takes one (sent with properties no descriptor declares), and one
\* that validation rejects (an unknown intent, with an ill-shaped pubkey).
Requests ==
    {Params("object", "implicit_flow", "intents" :> V),
     Params("object", "tx",
            ("xdr" :> V) @@ ("pubkey" :> PK1) @@ ("session" :> X) @@ ("extra" :> V)),
     Params("object", "bogus", ("xdr" :> V) @@ ("pubkey" :> PKLower))}

\* What a transport may resolve with: grants (the first expiring before the
\* clock stops), a refusal, and a result of another intent.
Results ==
    {Result("implicit_flow", TRUE, PK1, T1, 0, {"tx"}),
     Result("implicit_flow", TRUE, PK1, T2, MaxTime, {"tx", "manage_account"}),
     Result("implicit_flow", TRUE, PK2, T1, MaxTime, {"tx"}),
     Result("implicit_flow", FALSE, PK1, T1, MaxTime, {"tx"}),
     Result("tx", TRUE, PK2, T2, MaxTime, {"tx"})}

\* ------------------------------------------------------- AlbedoIntent ----
\* The methods of AlbedoIntent that stand for an intent, with that intent.
EntryPoints ==
    [implicitFlow |-> "implicit_flow", publicKey |-> "public_key",
     tx |-> "tx", pay |-> "pay", trust |-> "trust", exchange |-> "exchange",
     signMessage |-> "sign_message", manageAccount |-> "manage_account"]

\* The objects the callers hold when they start and pass as params: one
\* without an intent and without a token, one with an intent of its own and
\* with a token and a message.
Callers == {"a", "b"}
CallerObjects ==
    [o \in Callers |->
        IF o = "a"
        THEN Params("object", "",
                    ("xdr" :> V) @@ ("pubkey" :> PK1) @@ ("asset_code" :> V)
                    @@ ("asset_issuer" :> V) @@ ("intents" :> V))
        ELSE Params("object", "bogus",
                    ("xdr" :> V) @@ ("asset_code" :> V) @@ ("asset_issuer" :> V)
                    @@ ("token" :> X) @@ ("message" :> V))]

\* No caller's object: the dispatcher is called directly.
NoObjects == [o \in {} |-> NoParams]

\* generateRandomToken()
Generated == <<"r">>

\* The argument of a method: a caller's object, or undefined (NoParams).
Argument(objs, arg) == IF arg = NoObject THEN NoParams ELSE objs[arg]

\* Object.assign({}, params): a new object with the own properties of
\* params, none for undefined and null.
Copy(params) == Params("object", params.intent, params.props)

\* publicKey: the copy of params that is passed to request.
publicKeyParams(params) ==
    IF Truthy(Copy(params), "token") THEN Copy(params)
    ELSE [Copy(params) EXCEPT !.props = ("token" :> Generated) @@ @]

\* normalizeMessageToSign(params.message), for a string or no message.
normalizeMessageToSign(params) ==
    IF "message" \in DOMAIN params.props THEN params.props["message"]
    ELSE Empty

\* signMessage: the copy of params that is passed to request.
signMessageParams(params) ==
    [Copy(params) EXCEPT
        !.props = ("message" :> normalizeMessageToSign(params)) @@ @]

\* Object.assign(params || {}, {intent}): undefined and null are replaced
\* by a new object, a string or a number is wrapped into an object.
Assigned(params, intent) ==
    Params(IF params.type = "function" THEN "function" ELSE "object",
           intent, params.props)

\* Faulty variant of EnvelopeIdentity: `requestParams = params`, the
\* envelope is the object that was passed.
EnvelopeIsParams(passed) == passed

\* `requestParams = {intent}`: the envelope is a new object, whatever object
\* was passed.
EnvelopeIdentity(passed) == NoObject

\* ------------------------------------------------------------ actions ----
\* Faulty variant of Dispatch: the dialog transport is created before the
\* outcome of validation is known.
DispatchTransportFirst(c, params) ==
    /\ calls[c].pc = "idle"
    /\ LET v == requestIntentConfirmation(params)
       IN  calls' = [calls EXCEPT ![c] =
              IF v.status = "resolved"
              THEN [Idle EXCEPT !.pc = "prepared", !.params = params,
                                !.envelope = v.requestParams]
              ELSE [Idle EXCEPT !.pc = "rejected", !.params = params,
                                !.transport = "dialog", !.created = {"dialog"},
                                !.outcome = Failed(v.error)]]
    /\ UNCHANGED <<store, now, extensionEnabled, latest, objects>>

\* requestIntentConfirmation(params): validation.  A failure settles the
\* call at once; a success leaves sendRequest scheduled.
Dispatch(c, params) ==
    /\ calls[c].pc = "idle"
    /\ LET v == requestIntentConfirmation(params)
       IN  calls' = [calls EXCEPT ![c] =
              IF v.status = "resolved"
              THEN [Idle EXCEPT !.pc = "prepared", !.params = params,
                                !.envelope = v.requestParams]
              ELSE [Idle EXCEPT !.pc = "rejected", !.params = params,
                                !.outcome = Failed(v.error)]]
    /\ UNCHANGED <<store, now, extensionEnabled, latest, objects>>

\* sendRequest(requestParams, frontendUrl) as far as postMessage.
SendRequest(c) ==
    /\ calls[c].pc = "prepared"
    /\ LET s == sendRequest(calls[c].envelope, extensionEnabled, store, now)
       IN  calls' = [calls EXCEPT ![c] =
              [@ EXCEPT !.pc = "posted", !.envelope = s.envelope,
                        !.transport = s.transport, !.created = s.created,
                        !.ext = extensionEnabled, !.read = s.read,
                        !.session = s.session]]
    /\ UNCHANGED <<store, now, extensionEnabled, latest, objects>>

\* A granted implicit_flow result for this pubkey.
Grants(outcome, pubkey) ==
    /\ outcome.kind = "result"
    /\ outcome.result.intent = "implicit_flow"
    /\ outcome.result.granted
    /\ outcome.result.pubkey = pubkey

\* The session a result carries, as an entry of the storage.
Carried(result) ==
    [key |-> result.session, valid_until |-> result.valid_until,
     grants |-> result.grants]

\* The calls whose stored session is at pubkey are told it was replaced.
Replace(cs, pubkey) ==
    [d \in DOMAIN cs |->
        IF cs[d].pc = "resolved" /\ Grants(cs[d].outcome, pubkey)
        THEN [cs[d] EXCEPT !.replaced = TRUE]
        ELSE cs[d]]

\* The exchange resolves with result and the response handler runs.
TransportResolve(c, result) ==
    /\ calls[c].pc = "posted"
    /\ store' = onResult(store, result)
    /\ calls' =
          [(IF Grants(Fulfilled(result), result.pubkey)
            THEN Replace(calls, result.pubkey) ELSE calls)
           EXCEPT ![c] = [Idle EXCEPT !.pc = "resolved",
                                      !.raised = Fulfilled(result),
                                      !.outcome = Fulfilled(returned(result))]]
    /\ latest' = IF Grants(Fulfilled(result), result.pubkey)
                 THEN [latest EXCEPT ![result.pubkey] = Carried(result)]
                 ELSE latest
    /\ UNCHANGED <<now, extensionEnabled, objects>>

\* Faulty variant of TransportReject: a failed exchange is tried again.
TransportRejectRetry(c, kind) ==
    /\ calls[c].pc = "posted"
    /\ calls' = [calls EXCEPT ![c] =
                    [@ EXCEPT !.pc = "prepared",
                              !.raised = Failed(Err(kind, "", ""))]]
    /\ UNCHANGED <<store, now, extensionEnabled, latest, objects>>

\* The exchange fails with a transport error.
TransportReject(c, kind) ==
    /\ calls[c].pc = "posted"
    /\ calls' = [calls EXCEPT ![c] =
                    [Idle EXCEPT !.pc = "failed",
                                 !.raised = Failed(Err(kind, "", "")),
                                 !.outcome = Failed(propagated(Err(kind, "", "")))]]
    /\ UNCHANGED <<store, now, extensionEnabled, latest, objects>>

\* The caller has taken the outcome of a settled call.
Return(c) ==
    /\ calls[c].pc \in {"rejected", "resolved", "failed"}
    /\ calls' = [calls EXCEPT ![c] = Idle]
    /\ UNCHANGED <<store, now, extensionEnabled, latest, objects>>

\* Faulty variant of Forget: forgetSession is called without the pubkey.
ForgetNothing(pubkey) ==
    /\ store' = forgetSession(store, Empty)
    /\ calls' = Replace(calls, pubkey)
    /\ latest' = [latest EXCEPT ![pubkey] = NoEntry]
    /\ UNCHANGED <<now, extensionEnabled, objects>>

\* forgetImplicitSession(pubkey)
Forget(pubkey) ==
    /\ store' = forgetSession(store, pubkey)
    /\ calls' = Replace(calls, pubkey)
    /\ latest' = [latest EXCEPT ![pubkey] = NoEntry]
    /\ UNCHANGED <<now, extensionEnabled, objects>>

\* Time passes.
Tick ==
    /\ now < MaxTime
    /\ now' = now + 1
    /\ UNCHANGED <<calls, store, extensionEnabled, latest, objects>>

\* The browser extension appears or goes away.
ToggleExtension ==
    /\ extensionEnabled' = ~extensionEnabled
    /\ UNCHANGED <<calls, store, now, latest, objects>>

\* request(intent, params) as called by method entry of AlbedoIntent with
\* the object passed: the caller's own object `own`, or an object made by
\* the method (own is none).  The argument is evaluated first, which writes
\* the intent into the object passed, and so into every envelope that is
\* that object.  Then the call fails: part_000 imports
\* requestIntentConfirmation by name, and intent-dispatcher.js exports
\* nothing of that name, only its dispatcher object by default, so that the
\* binding is not a function and the dispatcher is never reached.
RequestCall(c, entry, intent, arg, passed, own) ==
    /\ calls[c].pc = "idle"
    /\ objects' = IF own = NoObject THEN objects
                  ELSE [objects EXCEPT ![own] = Assigned(passed, intent)]
    /\ calls' = [d \in CallIds |->
          IF d = c
          THEN [Idle EXCEPT !.pc = "rejected", !.entry = entry,
                            !.asked = intent, !.arg = arg,
                            !.passed = Assigned(passed, intent),
                            !.outcome = Failed(Err("TypeError", "", ""))]
          ELSE IF own # NoObject /\ calls[d].shared = own
          THEN [calls[d] EXCEPT !.envelope.intent = intent]
          ELSE calls[d]]
    /\ UNCHANGED <<store, now, extensionEnabled, latest>>

\* dispatcher.requestIntentConfirmation(params, frontendUrl) called with a
\* caller's object as it is now.
DispatchObject(c, arg) ==
    /\ calls[c].pc = "idle"
    /\ LET params == objects[arg]
           v == requestIntentConfirmation(params)
       IN  calls' = [calls EXCEPT ![c] =
              IF v.status = "resolved"
              THEN [Idle EXCEPT !.pc = "prepared", !.params = params,
                                !.envelope = v.requestParams, !.arg = arg,
                                !.shared = EnvelopeIdentity(arg)]
              ELSE [Idle EXCEPT !.pc = "rejected", !.params = params,
                                !.arg = arg, !.outcome = Failed(v.error)]]
    /\ UNCHANGED <<store, now, extensionEnabled, latest, objects>>

\* AlbedoIntent.request(intent, params)
Request(c, intent, arg) ==
    RequestCall(c, "request", intent, arg, Argument(objects, arg), arg)

\* The methods implicitFlow, publicKey, tx, pay, trust, exchange,
\* signMessage and manageAccount, called with a caller's object or with
\* nothing.  signMessage reads params.message first, which throws when
\* there are no params, before anything is written.
Entry(c, entry, arg) ==
    IF entry = "publicKey"
    THEN RequestCall(c, entry, EntryPoints[entry], arg,
                     publicKeyParams(Argument(objects, arg)), NoObject)
    ELSE IF entry = "signMessage"
    THEN IF arg = NoObject
         THEN /\ calls[c].pc = "idle"
              /\ calls' = [calls EXCEPT ![c] =
                    [Idle EXCEPT !.pc = "rejected", !.entry = entry,
                                 !.asked = EntryPoints[entry],
                                 !.outcome = Failed(Err("TypeError", "", ""))]]
              /\ UNCHANGED <<store, now, extensionEnabled, latest, objects>>
         ELSE RequestCall(c, entry, EntryPoints[entry], arg,
                          signMessageParams(Argument(objects, arg)), NoObject)
    ELSE RequestCall(c, entry, EntryPoints[entry], arg,
                     Argument(objects, arg), arg)

\* ------------------------------------------------------ specification ----
Init ==
    /\ calls = [c \in CallIds |-> Idle]
    /\ store = [k \in Pubkeys |-> NoEntry]
    /\ now = 0
    /\ extensionEnabled = FALSE
    /\ latest = [k \in Pubkeys |-> NoEntry]
    /\ objects = NoObjects

Next ==
    \/ \E c \in CallIds, params \in Requests : Dispatch(c, params)
    \/ \E c \in CallIds : SendRequest(c)
    \/ \E c \in CallIds, result \in Results : TransportResolve(c, result)
    \/ \E c \in CallIds, kind \in TransportErrors : TransportReject(c, kind)
    \/ \E c \in CallIds : Return(c)
    \/ \E pubkey \in Pubkeys : Forget(pubkey)
    \/ Tick
    \/ ToggleExtension

Spec == Init /\ [][Next]_vars

\* The sessions the storage may hold for PK1 when a validation run starts:
\* one that lasts and grants every intent, one that expires at the first
\* tick of the clock, one that grants tx only.
StoredSessions ==
    {[key |-> T2, valid_until |-> MaxTime, grants |-> DOMAIN intentInterface],
     [key |-> T1, valid_until |-> 0, grants |-> DOMAIN intentInterface],
     [key |-> T2, valid_until |-> MaxTime, grants |-> {"tx"}]}

\* The validation runs: one call, any params, from a storage that is empty
\* or holds a session, with or without the extension, while time passes.
VInit ==
    /\ calls = [c \in CallIds |-> Idle]
    /\ store \in {[k \in Pubkeys |-> NoEntry]}
                 \cup {[k \in Pubkeys |-> IF k = PK1 THEN entry ELSE NoEntry] :
                          entry \in StoredSessions}
    /\ now = 0
    /\ extensionEnabled \in BOOLEAN
    /\ latest = store
    /\ objects = NoObjects

VNext ==
    \/ \E params \in AllParams : Dispatch(1, params)
    \/ SendRequest(1)
    \/ Tick

VSpec == VInit /\ [][VNext]_vars

\* The runs of the calls alone, with or without the extension: nothing is
\* forgotten and the clock stands still.  The promise job of a validated
\* call (the `then` callback that calls sendRequest) is eventually run.
LInit ==
    /\ calls = [c \in CallIds |-> Idle]
    /\ store = [k \in Pubkeys |-> NoEntry]
    /\ now = 0
    /\ extensionEnabled \in BOOLEAN
    /\ latest = store
    /\ objects = NoObjects

LNext ==
    \/ \E c \in CallIds, params \in Requests : Dispatch(c, params)
    \/ \E c \in CallIds : SendRequest(c)
    \/ \E c \in CallIds, result \in Results : TransportResolve(c, result)
    \/ \E c \in CallIds, kind \in TransportErrors : TransportReject(c, kind)
    \/ \E c \in CallIds : Return(c)

LiveSpec ==
    LInit /\ [][LNext]_vars /\ \A c \in CallIds : WF_vars(SendRequest(c))

\* The runs of the methods of AlbedoIntent: one call at a time, of any
\* method, with either of the callers' objects or with nothing, the objects
\* being used again as the calls left them.
EInit ==
    /\ calls = [c \in CallIds |-> Idle]
    /\ store = [k \in Pubkeys |-> NoEntry]
    /\ now = 0
    /\ extensionEnabled = FALSE
    /\ latest = store
    /\ objects = CallerObjects

ENext ==
    \/ \E entry \in DOMAIN EntryPoints, arg \in Callers \cup {NoObject} :
          Entry(1, entry, arg)
    \/ \E intent \in {"tx", "bogus"}, arg \in Callers \cup {NoObject} :
          Request(1, intent, arg)
    \/ Return(1)

ESpec == EInit /\ [][ENext]_vars

\* The runs of calls made at once with the callers' objects, through tx and
\* trust and to the dispatcher itself, the storage holding a session for tx.
AInit ==
    /\ calls = [c \in CallIds |-> Idle]
    /\ store = [k \in Pubkeys |->
                   IF k = PK1
                   THEN [key |-> T2, valid_until |-> MaxTime, grants |-> {"tx"}]
                   ELSE NoEntry]
    /\ now = 0
    /\ extensionEnabled = FALSE
    /\ latest = store
    /\ objects = CallerObjects

ANext ==
    \/ \E c \in CallIds, entry \in {"tx", "trust"}, arg \in Callers :
          Entry(c, entry, arg)
    \/ \E c \in CallIds, arg \in Callers : DispatchObject(c, arg)
    \/ \E c \in CallIds : SendRequest(c)
    \/ \E c \in CallIds, kind \in TransportErrors : TransportReject(c, kind)
    \/ \E c \in CallIds : Return(c)

ASpec == AInit /\ [][ANext]_vars

\* ============================================================ claims ====
\* The step of call c from validated to posted, and from posted to settled.
SendStep(c) == calls[c].pc = "prepared" /\ calls'[c].pc = "posted"
SettleStep(c) == calls[c].pc = "posted" /\ calls'[c].pc # "posted"

\* The envelope's pubkey, if it carries one.
CarriesPubkey(envelope) ==
    "pubkey" \in DOMAIN envelope.props /\ envelope.props["pubkey"] # Empty

\* What the storage returns for the envelope of call c, now.
Applicable(c) ==
    IF CarriesPubkey(calls[c].envelope)
    THEN getImplicitSession(store, now, calls[c].envelope.intent,
                            calls[c].envelope.props["pubkey"])
    ELSE NoSession

\* C1: a call posted while the extension channel is available is posted to
\* the extension transport, and the extension transport is the only one it
\* created, whatever the storage held for it.
C1_ExtensionTransportUsed ==
    \A c \in CallIds :
        calls[c].pc = "posted" /\ calls[c].ext
            => /\ calls[c].transport = "extension"
               /\ calls[c].created = {"extension"}

\* A call posted with the extension available although the storage returned
\* a session for it.
C1_Witness ==
    \E c \in CallIds :
        /\ calls[c].pc = "posted"
        /\ calls[c].ext
        /\ calls[c].session # NoSession
        /\ calls[c].transport = "extension"

\* C2: when a validated call is sent with no extension available and the
\* storage returns a session for the envelope's intent and pubkey, the call
\* is posted to the iframe transport, the only one created, and the envelope
\* posted is the validated one with session set to the session's key.
C2_SessionOverIframe ==
    [][\A c \in CallIds :
          (SendStep(c) /\ ~extensionEnabled /\ Applicable(c) # NoSession)
              => /\ calls'[c].transport = "iframe"
                 /\ calls'[c].created = {"iframe"}
                 /\ calls'[c].envelope.intent = calls[c].envelope.intent
                 /\ calls'[c].envelope.props =
                       ("session" :> Applicable(c).key) @@ calls[c].envelope.props]_vars

\* A call posted over the iframe transport with a stored token attached.
C2_Witness ==
    \E c \in CallIds :
        /\ calls[c].pc = "posted"
        /\ ~calls[c].ext
        /\ calls[c].transport = "iframe"
        /\ "session" \in DOMAIN calls[c].envelope.props
        /\ calls[c].envelope.props["session"] \in {T1, T2}

\* C3: when a validated call is sent with no extension available and either
\* its envelope carries no pubkey or nothing is stored for that pubkey, the
\* call is posted to the dialog transport, the only one created, and the
\* envelope posted has no session property.
C3_DialogWithoutSession ==
    [][\A c \in CallIds :
          (/\ SendStep(c)
           /\ ~extensionEnabled
           /\ \/ ~CarriesPubkey(calls[c].envelope)
              \/ calls[c].envelope.props["pubkey"] \notin DOMAIN store
              \/ store[calls[c].envelope.props["pubkey"]] = NoEntry)
              => /\ calls'[c].transport = "dialog"
                 /\ calls'[c].created = {"dialog"}
                 /\ "session" \notin DOMAIN calls'[c].envelope.props]_vars

\* A call with a pubkey, given a session property by its caller, posted to
\* the dialog transport while nothing is stored for the pubkey.
C3_Witness ==
    \E c \in CallIds :
        /\ calls[c].pc = "posted"
        /\ ~calls[c].ext
        /\ calls[c].transport = "dialog"
        /\ CarriesPubkey(calls[c].envelope)
        /\ "session" \in DOMAIN calls[c].params.props
        /\ ~calls[c].read \/ calls[c].session = NoSession
        /\ store[calls[c].envelope.props["pubkey"]] = NoEntry

\* The session a granted result carries.
SessionOf(result) ==
    [pubkey |-> result.pubkey, key |-> result.session,
     valid_until |-> result.valid_until, grants |-> result.grants]

\* Call c resolved with a granted implicit_flow result.
ResolvedGrant(c) ==
    /\ calls[c].pc = "resolved"
    /\ calls[c].outcome.kind = "result"
    /\ calls[c].outcome.result.intent = "implicit_flow"
    /\ calls[c].outcome.result.granted

\* C4 as stated: once a dispatch has resolved with a granted implicit_flow
\* result, the storage returns that result's session for every granted
\* intent at any time before expiry.
C4_AnyTimeAfter ==
    \A c \in CallIds :
        ResolvedGrant(c) /\ now <= calls[c].outcome.result.valid_until
            => \A intent \in calls[c].outcome.result.grants :
                  getImplicitSession(store, now, intent,
                                     calls[c].outcome.result.pubkey)
                      = SessionOf(calls[c].outcome.result)

\* C4, amended: once a dispatch has resolved with a granted implicit_flow
\* result, and until the pubkey is forgotten or a later grant for it
\* resolves, the storage returns that result's session for every granted
\* intent before expiry, and a validated call sent meanwhile for such an
\* intent and that pubkey is posted with that session's token.
C4_UntilReplaced ==
    /\ [](\A c \in CallIds :
            (/\ ResolvedGrant(c)
             /\ ~calls[c].replaced
             /\ now <= calls[c].outcome.result.valid_until)
                => \A intent \in calls[c].outcome.result.grants :
                      getImplicitSession(store, now, intent,
                                         calls[c].outcome.result.pubkey)
                          = SessionOf(calls[c].outcome.result))
    /\ [][\A c, d \in CallIds :
            (/\ ResolvedGrant(c)
             /\ ~calls[c].replaced
             /\ now <= calls[c].outcome.result.valid_until
             /\ SendStep(d)
             /\ CarriesPubkey(calls[d].envelope)
             /\ calls[d].envelope.props["pubkey"] = calls[c].outcome.result.pubkey
             /\ calls[d].envelope.intent \in calls[c].outcome.result.grants)
                => /\ "session" \in DOMAIN calls'[d].envelope.props
                   /\ calls'[d].envelope.props["session"]
                         = calls[c].outcome.result.session]_vars

\* A call has resolved with a grant that is still stored, and another call
\* for the granted pubkey has been posted with the granted token.
C4_Witness ==
    \E c, d \in CallIds :
        /\ ResolvedGrant(c)
        /\ ~calls[c].replaced
        /\ now <= calls[c].outcome.result.valid_until
        /\ calls[d].pc = "posted"
        /\ CarriesPubkey(calls[d].envelope)
        /\ calls[d].envelope.props["pubkey"] = calls[c].outcome.result.pubkey
        /\ "session" \in DOMAIN calls[d].envelope.props
        /\ calls[d].envelope.props["session"] = calls[c].outcome.result.session

\* C5: when the exchange of a posted call fails, the dispatch fails with the
\* error the transport raised, and the storage is left as it was.
C5_FailurePropagates ==
    [][\A c \in CallIds :
          (SettleStep(c) /\ calls'[c].raised.kind = "error")
              => /\ calls'[c].pc = "failed"
                 /\ calls'[c].outcome = calls'[c].raised
                 /\ calls'[c].outcome.error.kind \in TransportErrors
                 /\ store' = store]_vars

\* A call has failed with a transport error while the storage holds a
\* session.
C5_Witness ==
    \E c \in CallIds :
        /\ calls[c].pc = "failed"
        /\ calls[c].outcome.kind = "error"
        /\ calls[c].outcome.error.kind = "Timeout"
        /\ \E k \in Pubkeys : store[k] # NoEntry

\* C6: a call that validation rejects has created no transport, posted no
\* message and not read the storage, and the step that rejects it changes
\* neither the storage nor the clock nor the extension flag nor any other
\* call.
C6_ValidationFailsFast ==
    /\ [](\A c \in CallIds :
            (calls[c].pc = "rejected"
             /\ calls[c].outcome.error.kind \in ValidationKinds)
                => /\ calls[c].transport = "none"
                   /\ calls[c].created = {}
                   /\ ~calls[c].read
                   /\ calls[c].envelope = NoEnvelope
                   /\ calls[c].raised = NoOutcome)
    /\ [][\A c \in CallIds :
            (calls[c].pc = "idle" /\ calls'[c].pc = "rejected")
                => /\ store' = store
                   /\ now' = now
                   /\ extensionEnabled' = extensionEnabled
                   /\ \A d \in CallIds \ {c} : calls'[d] = calls[d]]_vars

\* A call naming a stored pubkey is rejected for a missing parameter while
\* the extension is available and the storage holds a session.
C6_Witness ==
    \E c \in CallIds :
        /\ calls[c].pc = "rejected"
        /\ calls[c].outcome.error.kind = "MissingRequiredParameter"
        /\ "pubkey" \in DOMAIN calls[c].params.props
        /\ calls[c].params.props["pubkey"] = PK1
        /\ store[PK1] # NoEntry
        /\ extensionEnabled

\* C7: the envelope validation produces has only properties the intent's
\* descriptor declares, each with the caller's value; the message posted has
\* these and at most a session property holding the stored token, so a
\* property of the caller's that the descriptor does not declare is never
\* in the message.
C7_OnlyDeclaredKeys ==
    \A c \in CallIds :
        /\ calls[c].pc = "prepared"
              => DOMAIN calls[c].envelope.props \subseteq Declared(calls[c].envelope.intent)
        /\ calls[c].pc \in {"prepared", "posted"}
              => /\ calls[c].envelope.intent = calls[c].params.intent
                 /\ \A k \in DOMAIN calls[c].envelope.props :
                       \/ /\ k \in Declared(calls[c].envelope.intent)
                          /\ k \in DOMAIN calls[c].params.props
                          /\ calls[c].envelope.props[k] = calls[c].params.props[k]
                       \/ /\ k = "session"
                          /\ calls[c].pc = "posted"
                          /\ CarriesPubkey(calls[c].envelope)
                          /\ calls[c].envelope.props[k]
                                = store[calls[c].envelope.props["pubkey"]].key

\* A call given two undeclared properties, session among them, is posted
\* without the first and with the stored token for the second.
C7_Witness ==
    \E c \in CallIds :
        /\ calls[c].pc = "posted"
        /\ {"extra", "session"} \subseteq DOMAIN calls[c].params.props
        /\ "extra" \notin DOMAIN calls[c].envelope.props
        /\ "session" \in DOMAIN calls[c].envelope.props
        /\ calls[c].envelope.props["session"] # calls[c].params.props["session"]

\* C8: the envelope validation produces has no session property; the
\* message posted has one exactly when the storage returns a session for the
\* envelope's intent and pubkey at that moment, with or without the
\* extension, and its value is that session's key, never the caller's.
C8_SessionOnlyFromStore ==
    /\ [](\A c \in CallIds :
            calls[c].pc = "prepared"
                => "session" \notin DOMAIN calls[c].envelope.props)
    /\ [][\A c \in CallIds :
            SendStep(c)
                => /\ ("session" \in DOMAIN calls'[c].envelope.props)
                          <=> (Applicable(c) # NoSession)
                   /\ Applicable(c) # NoSession
                          => calls'[c].envelope.props["session"] = Applicable(c).key]_vars

\* A call whose caller supplied a session value is posted to the extension
\* transport with the stored token.
C8_Witness ==
    \E c \in CallIds :
        /\ calls[c].pc = "posted"
        /\ calls[c].transport = "extension"
        /\ "session" \in DOMAIN calls[c].params.props
        /\ calls[c].params.props["session"] = X
        /\ "session" \in DOMAIN calls[c].envelope.props
        /\ calls[c].envelope.props["session"] \in {T1, T2}

\* The claims' own reading of the parameters: a value is supplied when it is
\* present and not empty; a pubkey is well-shaped when it matches
\* ^G[A-Z0-9]{55}$.
Supplied(params, key) ==
    key \in DOMAIN params.props /\ params.props[key] # Empty

WellShaped(pubkey) ==
    /\ Len(pubkey) = 56
    /\ pubkey[1] = "G"
    /\ \A i \in 2..56 :
          pubkey[i] \in {"A", "B", "C", "D", "E", "F", "G", "H", "I", "J", "K",
                         "L", "M", "N", "O", "P", "Q", "R", "S", "T", "U", "V",
                         "W", "X", "Y", "Z", "0", "1", "2", "3", "4", "5", "6",
                         "7", "8", "9"}

\* Call c has been dispatched with the name of a registered intent.
Known(c) ==
    calls[c].pc # "idle" /\ calls[c].params.intent \in DOMAIN intentInterface

\* The positions of the required parameters of the call's intent that its
\* params do not supply.
MissingRequired(c) ==
    {i \in 1..Len(intentInterface[calls[c].params.intent].params) :
        /\ intentInterface[calls[c].params.intent].params[i].required
        /\ ~Supplied(calls[c].params,
                     intentInterface[calls[c].params.intent].params[i].name)}

\* The declared parameters the call's params supply are in its envelope with
\* the caller's values.
SuppliedCopied(c) ==
    \A i \in 1..Len(intentInterface[calls[c].params.intent].params) :
        LET key == intentInterface[calls[c].params.intent].params[i].name
        IN  Supplied(calls[c].params, key)
                => /\ key \in DOMAIN calls[c].envelope.props
                   /\ calls[c].envelope.props[key] = calls[c].params.props[key]

\* C9 as stated: whenever a required parameter of a registered intent is not
\* supplied, the dispatch is rejected with MissingRequiredParameter naming
\* that parameter and the intent; a validated call's envelope has every
\* declared parameter that was supplied.
C9_AnyMissingRequired ==
    \A c \in CallIds :
        Known(c)
            => /\ \A i \in MissingRequired(c) :
                     /\ calls[c].pc = "rejected"
                     /\ calls[c].outcome.error =
                           Err("MissingRequiredParameter",
                               intentInterface[calls[c].params.intent].params[i].name,
                               calls[c].params.intent)
               /\ calls[c].pc \in {"prepared", "posted"} => SuppliedCopied(c)

\* C9, amended: for a params object whose pubkey is not supplied or is
\* well-shaped, a dispatch that leaves a required parameter unsupplied is
\* rejected with MissingRequiredParameter naming the first such parameter in
\* descriptor order and the intent; otherwise it passes validation and
\* every declared parameter supplied is in the envelope with its value.
C9_FirstMissingRequired ==
    \A c \in CallIds :
        (/\ Known(c)
         /\ calls[c].params.type = "object"
         /\ Supplied(calls[c].params, "pubkey")
               => WellShaped(calls[c].params.props["pubkey"]))
            => IF MissingRequired(c) # {}
               THEN LET first == CHOOSE i \in MissingRequired(c) :
                                    \A j \in MissingRequired(c) : i <= j
                    IN  /\ calls[c].pc = "rejected"
                        /\ calls[c].outcome.error =
                              Err("MissingRequiredParameter",
                                  intentInterface[calls[c].params.intent].params[first].name,
                                  calls[c].params.intent)
               ELSE /\ calls[c].pc \in {"prepared", "posted"}
                    /\ SuppliedCopied(c)

\* A call is rejected for the second required parameter of its intent, its
\* first one and a well-shaped pubkey being supplied.
C9_Witness ==
    \E c \in CallIds :
        /\ calls[c].pc = "rejected"
        /\ calls[c].params.type = "object"
        /\ calls[c].outcome.error =
              Err("MissingRequiredParameter", "asset_issuer", "trust")
        /\ Supplied(calls[c].params, "asset_code")
        /\ Supplied(calls[c].params, "pubkey")
        /\ "asset_issuer" \in DOMAIN calls[c].params.props

\* C10 as stated: a dispatch of a registered intent whose params have a
\* pubkey that is not well-shaped is rejected with InvalidPubkey.
C10_AnyIllShapedPubkey ==
    \A c \in CallIds :
        (/\ Known(c)
         /\ "pubkey" \in DOMAIN calls[c].params.props
         /\ ~WellShaped(calls[c].params.props["pubkey"]))
            => /\ calls[c].pc = "rejected"
               /\ calls[c].outcome.error.kind = "InvalidPubkey"

\* C10, amended: a dispatch of a registered intent whose params are an
\* object with a non-empty pubkey that is not well-shaped is rejected with
\* InvalidPubkey, so it is never prepared or posted.
C10_NonEmptyIllShapedPubkey ==
    \A c \in CallIds :
        (/\ Known(c)
         /\ calls[c].params.type = "object"
         /\ Supplied(calls[c].params, "pubkey")
         /\ ~WellShaped(calls[c].params.props["pubkey"]))
            => /\ calls[c].pc = "rejected"
               /\ calls[c].outcome.error.kind = "InvalidPubkey"

\* A call whose pubkey is a well-shaped key followed by one more character
\* is rejected with InvalidPubkey, although a required parameter is missing
\* too.
C10_Witness ==
    \E c \in CallIds :
        /\ calls[c].pc = "rejected"
        /\ calls[c].outcome.error.kind = "InvalidPubkey"
        /\ calls[c].params.intent = "tx"
        /\ "pubkey" \in DOMAIN calls[c].params.props
        /\ calls[c].params.props["pubkey"] = PKNewline
        /\ ~Supplied(calls[c].params, "xdr")

\* C11 as stated: every dispatch whose params are not an object (undefined,
\* null, a string, a number) is rejected with InvalidParameters, nothing
\* else being raised or thrown.
C11_NonObjectInvalidParameters ==
    \A c \in CallIds :
        (/\ calls[c].pc # "idle"
         /\ calls[c].params.type \in {"undefined", "null", "string", "number"})
            => /\ calls[c].pc = "rejected"
               /\ calls[c].outcome = Failed(Err("InvalidParameters", "", ""))

\* C12 as stated: a dispatch that names an intent without a descriptor is rejected
\* with UnknownIntent naming that intent, whatever else its params hold;
\* no envelope is built for it and no transport is created, and the storage,
\* the clock and the extension flag are as they were.
C12_UnknownIntentFirst ==
    /\ [](\A c \in CallIds :
            (/\ calls[c].pc # "idle"
             /\ calls[c].params.intent # ""
             /\ calls[c].params.intent \notin DOMAIN intentInterface)
                => /\ calls[c].pc = "rejected"
                   /\ calls[c].outcome =
                         Failed(Err("UnknownIntent", "", calls[c].params.intent))
                   /\ calls[c].envelope = NoEnvelope
                   /\ calls[c].created = {}
                   /\ calls[c].transport = "none"
                   /\ ~calls[c].read)
    /\ [][\A c \in CallIds :
            (/\ calls[c].pc = "idle" /\ calls'[c].pc # "idle"
             /\ calls'[c].params.intent # ""
             /\ calls'[c].params.intent \notin DOMAIN intentInterface)
                => /\ calls'[c].pc = "rejected"
                   /\ <<store, now, extensionEnabled>>' =
                         <<store, now, extensionEnabled>>]_vars

\* The same rejection, for the names the registry neither declares nor
\* inherits.
UnknownIntentOtherwise ==
    \A c \in CallIds :
        (/\ calls[c].pc # "idle"
         /\ calls[c].params.intent # ""
         /\ calls[c].params.intent \notin DOMAIN intentInterface
         /\ calls[c].params.intent \notin ObjectPrototype)
            => /\ calls[c].pc = "rejected"
               /\ calls[c].outcome =
                     Failed(Err("UnknownIntent", "", calls[c].params.intent))
               /\ calls[c].envelope = NoEnvelope
               /\ calls[c].created = {}

\* The error the order of C19 gives for the params of call c: the first of
\* MissingIntent, UnknownIntent, InvalidParameters, InvalidPubkey and
\* MissingRequiredParameter (for the first required parameter not supplied,
\* in descriptor order) whose test fails; NoError when none does.
FirstFailing(c) ==
    LET params == calls[c].params
    IN  IF params.intent = ""
        THEN Err("MissingIntent", "", "")
        ELSE IF params.intent \notin DOMAIN intentInterface
        THEN Err("UnknownIntent", "", params.intent)
        ELSE IF params.type # "object"
        THEN Err("InvalidParameters", "", "")
        ELSE IF Supplied(params, "pubkey")
                /\ ~WellShaped(params.props["pubkey"])
        THEN Err("InvalidPubkey", "", "")
        ELSE IF MissingRequired(c) # {}
        THEN Err("MissingRequiredParameter",
                 intentInterface[params.intent].params[
                     CHOOSE i \in MissingRequired(c) :
                         \A j \in MissingRequired(c) : i <= j].name,
                 params.intent)
        ELSE NoError

\* C19 as stated: every dispatch is rejected with the error of the first
\* failing test in the order MissingIntent, UnknownIntent,
\* InvalidParameters, InvalidPubkey, MissingRequiredParameter, params
\* without an intent being rejected with MissingIntent whatever they are;
\* it passes validation when no test fails.
C19_FirstFailingDecides ==
    \A c \in CallIds :
        calls[c].pc # "idle"
            => IF FirstFailing(c) = NoError
               THEN calls[c].pc \in {"prepared", "posted"}
               ELSE /\ calls[c].pc = "rejected"
                    /\ calls[c].outcome = Failed(FirstFailing(c))

\* The same order, for params other than undefined and null whose intent is
\* not a name the registry inherits.
OrderOtherwise ==
    \A c \in CallIds :
        (/\ calls[c].pc # "idle"
         /\ calls[c].params.type \notin {"undefined", "null"}
         /\ calls[c].params.intent \notin ObjectPrototype)
            => IF FirstFailing(c) = NoError
               THEN calls[c].pc \in {"prepared", "posted"}
               ELSE /\ calls[c].pc = "rejected"
                    /\ calls[c].outcome = Failed(FirstFailing(c))

\* C13: the storage holds one entry per pubkey, and it is the session carried
\* by the granted implicit_flow result that resolved last for that pubkey
\* and was not forgotten since (nothing, when there is none); the grant that
\* resolves replaces the session of its pubkey only, whichever call was
\* dispatched first.
C13_LatestGrantStored ==
    /\ [](/\ DOMAIN store = Pubkeys
          /\ \A pubkey \in Pubkeys : store[pubkey] = latest[pubkey])
    /\ [][\A c \in CallIds, pubkey \in Pubkeys :
            (SettleStep(c) /\ Grants(calls'[c].raised, pubkey))
                => /\ store'[pubkey] = Carried(calls'[c].raised.result)
                   /\ \A other \in Pubkeys \ {pubkey} :
                         store'[other] = store[other]]_vars

\* Two calls have resolved with grants of different sessions for the same
\* pubkey; the storage holds the session of the one that resolved last.
C13_Witness ==
    \E c, d \in CallIds :
        /\ c # d
        /\ ResolvedGrant(c) /\ ResolvedGrant(d)
        /\ calls[c].outcome.result.pubkey = PK1
        /\ calls[d].outcome.result.pubkey = PK1
        /\ calls[c].outcome.result.session # calls[d].outcome.result.session
        /\ calls[c].replaced /\ ~calls[d].replaced
        /\ store[PK1] = Carried(calls[d].outcome.result)

\* C14: while a pubkey has been forgotten and no grant for it has resolved
\* since, the storage returns no session for it for any intent, and a call
\* sent for it gets no session attached; forgetting removes the session of
\* that pubkey only; forgetting a pubkey that has no session leaves the
\* storage as it is, so that forgetting twice is forgetting once.
C14_ForgottenUntilGranted ==
    /\ [](\A pubkey \in Pubkeys :
            /\ latest[pubkey] = NoEntry
                  => \A intent \in DOMAIN intentInterface :
                        getImplicitSession(store, now, intent, pubkey) = NoSession
            /\ store[pubkey] = NoEntry => forgetSession(store, pubkey) = store
            /\ forgetSession(forgetSession(store, pubkey), pubkey)
                  = forgetSession(store, pubkey))
    /\ [][\A pubkey \in Pubkeys :
            /\ (latest[pubkey] # NoEntry /\ latest'[pubkey] = NoEntry)
                  => store' = [store EXCEPT ![pubkey] = NoEntry]
            /\ \A c \in CallIds :
                  (/\ SendStep(c)
                   /\ CarriesPubkey(calls[c].envelope)
                   /\ calls[c].envelope.props["pubkey"] = pubkey
                   /\ latest[pubkey] = NoEntry)
                      => /\ "session" \notin DOMAIN calls'[c].envelope.props
                         /\ calls'[c].session = NoSession]_vars

\* A call resolved with a grant for a pubkey that was forgotten afterwards,
\* and a call for that pubkey was then posted to the dialog transport
\* without a session.
C14_Witness ==
    \E c, d \in CallIds :
        /\ ResolvedGrant(c)
        /\ calls[c].outcome.result.pubkey = PK1
        /\ calls[c].replaced
        /\ latest[PK1] = NoEntry
        /\ calls[d].pc = "posted"
        /\ CarriesPubkey(calls[d].envelope)
        /\ calls[d].envelope.props["pubkey"] = PK1
        /\ calls[d].read
        /\ calls[d].transport = "dialog"
        /\ "session" \notin DOMAIN calls[d].envelope.props

\* C15: when a call is sent for a pubkey whose stored session has expired by
\* then, or does not grant the call's intent, the envelope is posted as
\* validated, without a session; it goes to the dialog transport, the only
\* one created, when there is no extension, and to the extension transport
\* otherwise; the stored session stays where it is.
C15_InapplicableSessionIgnored ==
    [][\A c \in CallIds :
          (/\ SendStep(c)
           /\ CarriesPubkey(calls[c].envelope)
           /\ calls[c].envelope.props["pubkey"] \in DOMAIN store
           /\ store[calls[c].envelope.props["pubkey"]] # NoEntry
           /\ \/ now > store[calls[c].envelope.props["pubkey"]].valid_until
              \/ calls[c].envelope.intent
                    \notin store[calls[c].envelope.props["pubkey"]].grants)
              => /\ calls'[c].envelope = calls[c].envelope
                 /\ "session" \notin DOMAIN calls'[c].envelope.props
                 /\ calls'[c].session = NoSession
                 /\ calls'[c].transport =
                       (IF extensionEnabled THEN "extension" ELSE "dialog")
                 /\ calls'[c].created = {calls'[c].transport}
                 /\ store' = store]_vars

\* A call was posted to the dialog transport without a session although the
\* storage holds a session for its pubkey that grants its intent: the
\* session has expired, and is still stored.
C15_Witness ==
    \E c \in CallIds :
        /\ calls[c].pc = "posted"
        /\ ~calls[c].ext
        /\ calls[c].transport = "dialog"
        /\ calls[c].envelope.intent = "tx"
        /\ CarriesPubkey(calls[c].envelope)
        /\ calls[c].envelope.props["pubkey"] = PK1
        /\ "session" \notin DOMAIN calls[c].envelope.props
        /\ store[PK1].key = T1
        /\ now > store[PK1].valid_until

\* A call for an intent the stored session of its pubkey does not grant was
\* posted to the dialog transport without a session.
NotGrantedReached ==
    \E c \in CallIds :
        /\ calls[c].pc = "posted"
        /\ ~calls[c].ext
        /\ calls[c].transport = "dialog"
        /\ calls[c].envelope.intent = "manage_account"
        /\ calls[c].envelope.props["pubkey"] = PK1
        /\ "session" \notin DOMAIN calls[c].envelope.props
        /\ store[PK1].grants = {"tx"}
        /\ now <= store[PK1].valid_until

\* C18 as stated: when a call whose params name an intent other than
\* implicit_flow resolves, with whatever result, the caller gets that result
\* and the storage is as it was.
C18_RequestedIntentDecides ==
    [][\A c \in CallIds :
          (/\ SettleStep(c)
           /\ calls'[c].raised.kind = "result"
           /\ calls[c].params.intent # "implicit_flow")
              => /\ calls'[c].outcome = calls'[c].raised
                 /\ store' = store]_vars

\* C18, amended: when a call resolves the caller gets the transport's result
\* as it is, and the storage is as it was unless the result's own intent is
\* implicit_flow and it is granted, in which case only the session of the
\* result's pubkey is replaced; validation, sending and a failed exchange
\* leave the storage as it was.
C18_ResultIntentDecides ==
    [][\A c \in CallIds :
          /\ (SettleStep(c) /\ calls'[c].raised.kind = "result")
                => /\ calls'[c].outcome = calls'[c].raised
                   /\ store' =
                         IF /\ calls'[c].raised.result.intent = "implicit_flow"
                            /\ calls'[c].raised.result.granted
                         THEN [store EXCEPT
                                  ![calls'[c].raised.result.pubkey] =
                                      Carried(calls'[c].raised.result)]
                         ELSE store
          /\ (SettleStep(c) /\ calls'[c].raised.kind = "error")
                => store' = store
          /\ (SendStep(c) \/ (calls[c].pc = "idle" /\ calls'[c].pc # "idle"))
                => store' = store]_vars

\* A call has resolved with a granted result of intent tx for a pubkey; the
\* caller has that result and the storage has no session for the pubkey.
C18_Witness ==
    \E c \in CallIds :
        /\ calls[c].pc = "resolved"
        /\ calls[c].raised = Fulfilled(Result("tx", TRUE, PK2, T2, MaxTime, {"tx"}))
        /\ calls[c].outcome = calls[c].raised
        /\ store[PK2] = NoEntry
        /\ latest[PK2] = NoEntry

\* C17: a call creates at most one transport: none until it is sent and
\* none when validation rejects it, exactly the one it posts to once sent.
\* A validated call is eventually sent, once; a posted call stays as posted
\* until its exchange settles, and then the dispatch settles with the
\* outcome of the exchange; a settled call is never sent again, whether it
\* failed or not: it keeps its outcome until the caller takes it.
C17_OneTransportOneExchange ==
    /\ [](\A c \in CallIds :
            /\ Cardinality(calls[c].created) <= 1
            /\ calls[c].pc \in {"idle", "prepared", "rejected"}
                  => calls[c].created = {} /\ calls[c].transport = "none"
            /\ calls[c].pc = "posted"
                  => /\ calls[c].transport # "none"
                     /\ calls[c].created = {calls[c].transport})
    /\ [][\A c \in CallIds :
            /\ calls[c].pc = "idle"
                  => calls'[c].pc \in {"idle", "prepared", "rejected"}
            /\ calls[c].pc = "prepared"
                  => calls'[c].pc \in {"prepared", "posted"}
            /\ calls[c].pc = "posted"
                  => \/ calls'[c] = calls[c]
                     \/ /\ calls'[c].pc \in {"resolved", "failed"}
                        /\ calls'[c].outcome = calls'[c].raised
                        /\ (calls'[c].pc = "resolved")
                              = (calls'[c].raised.kind = "result")
            /\ calls[c].pc \in {"rejected", "resolved", "failed"}
                  => \/ /\ calls'[c].pc = calls[c].pc
                        /\ calls'[c].outcome = calls[c].outcome
                     \/ calls'[c] = Idle]_vars
    /\ \A c \in CallIds :
          (calls[c].pc = "prepared") ~> (calls[c].pc = "posted")

\* The exchange of one call has failed and the call holds that failure,
\* having created nothing since, while another call is posted to the one
\* transport it created.
C17_Witness ==
    \E c, d \in CallIds :
        /\ calls[c].pc = "failed"
        /\ calls[c].raised = Failed(Err("ChannelClosed", "", ""))
        /\ calls[c].outcome = calls[c].raised
        /\ calls[d].pc = "posted"
        /\ calls[d].created = {"iframe"}

\* Call c, made through a method of AlbedoIntent, made one dispatch with the
\* intent of that method, whatever intent the caller's object held; through
\* publicKey, the params dispatched have the caller's token when the caller
\* supplied one and a generated one otherwise.
DispatchedOwnIntent(c) ==
    /\ calls[c].params # NoParams
    /\ calls[c].params.intent = calls[c].asked
    /\ calls[c].entry # "request" => calls[c].asked = EntryPoints[calls[c].entry]
    /\ calls[c].entry = "publicKey"
          => /\ "token" \in DOMAIN calls[c].params.props
             /\ calls[c].params.props["token"] =
                   IF /\ calls[c].arg # NoObject
                      /\ Supplied(objects[calls[c].arg], "token")
                   THEN objects[calls[c].arg].props["token"]
                   ELSE Generated

\* C20 as stated: every call of a method of AlbedoIntent makes one dispatch
\* with the method's own intent (for request, the intent it was given),
\* publicKey sending the caller's token or else a generated one.
C20_EntryDispatchesOwnIntent ==
    \A c \in CallIds : calls[c].entry # "" => DispatchedOwnIntent(c)

\* What the methods pass: the argument evaluated for the dispatch has the
\* intent of the method, and through publicKey the caller's token when the
\* caller supplied one and a generated one otherwise; only signMessage
\* without params evaluates none.
PassedOwnIntent ==
    \A c \in CallIds :
        (calls[c].entry # "" /\ calls[c].passed # NoParams)
            => /\ calls[c].passed.intent = calls[c].asked
               /\ calls[c].entry # "request"
                     => calls[c].asked = EntryPoints[calls[c].entry]
               /\ calls[c].entry = "publicKey"
                     => calls[c].passed.props["token"] =
                           IF /\ calls[c].arg # NoObject
                              /\ Supplied(objects[calls[c].arg], "token")
                           THEN objects[calls[c].arg].props["token"]
                           ELSE Generated

\* C16: the envelope of a call that is waiting to be sent or has been posted
\* changes only when that call itself is sent: not when a method is called
\* with the same caller's object (which writes its intent into that
\* object), not when another call starts with that object,
\* not when a session is attached to another call's envelope, not when
\* another call settles.  Sending a call changes no other call and no
\* caller's object, and a validated call can be sent whatever the other
\* calls are waiting for.
C16_OwnEnvelope ==
    /\ [](\A c \in CallIds : calls[c].pc = "prepared" => ENABLED SendRequest(c))
    /\ [][\A c \in CallIds :
            /\ (calls[c].pc \in {"prepared", "posted"} /\ calls'[c].pc = calls[c].pc)
                  => /\ calls'[c].envelope = calls[c].envelope
                     /\ calls'[c].session = calls[c].session
            /\ SendStep(c)
                  => /\ objects' = objects
                     /\ calls'[c].envelope.intent = calls[c].envelope.intent
                     /\ \A d \in CallIds \ {c} : calls'[d] = calls[d]
            /\ (calls[c].pc = "idle" /\ calls'[c].pc # "idle")
                  => \A d \in CallIds \ {c} : calls'[d] = calls[d]]_vars

\* Two calls were made with the same caller's object, another intent having
\* been written into it in between; the first is posted with its own intent
\* and with a session, the second has its own intent and no session.
C16_Witness ==
    \E c, d \in CallIds :
        /\ c # d
        /\ calls[c].arg = "a" /\ calls[d].arg = "a"
        /\ calls[c].pc = "posted"
        /\ calls[c].envelope.intent = "tx"
        /\ "session" \in DOMAIN calls[c].envelope.props
        /\ calls[c].envelope.props["session"] = T2
        /\ calls[d].pc = "posted"
        /\ calls[d].envelope.intent = "trust"
        /\ "session" \notin DOMAIN calls[d].envelope.props
        /\ objects["a"].intent = "trust"

=============================================================================
